---- MODULE Spec2Model ----
(***************************************************************************)
(* Model of the workflow control-flow core of the tasks package:            *)
(*   tasks/task_utils.py  - pacing delay, interruptible sleep, and the      *)
(*                          on-success / on-failure action handlers         *)
(*   tasks/__init__.py    - package initialisation and the task registry    *)
(*                                                                         *)
(* Conventions                                                              *)
(*  - An optional Python value is a sequence of length <= 1: <<>> is None   *)
(*    (or a key missing from the params dict), <<v>> is the value v.        *)
(*  - The Chinese string literals of the source are written in ASCII:       *)
(*      "NextStep"          '执行下一步'                                    *)
(*      "RepeatStep"        '继续执行本步骤'                                *)
(*      "RepeatStepLegacy"  '继续本步骤'                                    *)
(*      "JumpToStep"        '跳转到步骤'                                    *)
(*      "StopWorkflow"      '停止工作流'                                    *)
(*      "Unrecognized"      any other string                                *)
(*      "FixedDelay"        '固定延迟'                                      *)
(*      "RandomDelay"       '随机延迟'                                      *)
(*      "UnknownMode"       any other delay mode string                     *)
(*  - Time is counted in ticks of 0.05 s; time.sleep(0.1) is SliceTicks.    *)
(*    Only time.sleep advances the clock.                                   *)
(***************************************************************************)
EXTENDS Integers, Sequences, FiniteSets, TLC

(* ------------------------------ bounds --------------------------------- *)
\* largest step (card) id used as card_id or as a jump target
MaxStepId == 2
\* largest explicitly configured delay, in ticks
MaxDelay == 5

\* largest number of fragments handed to merge_params_definitions
MaxFragments == 2
\* largest value stored under a key of a fragment
MaxValue == 3

(* ------------------------- program constants --------------------------- *)
\* time.sleep(0.1)
SliceTicks == 2
\* params.get('fixed_delay', 1.0)
DefaultFixedDelay == 20
\* params.get('min_delay', 0.5)
DefaultMinDelay == 10
\* params.get('max_delay', 2.0)
DefaultMaxDelay == 40

VARIABLES
    pc,              \* position of the running call
    entry,           \* the function the driver called
    params,          \* the params dict of the call
    card_id,         \* the card_id argument (optional)
    stop_checker,    \* "None" | "Flag" (callable reading stopFlag) | "Raises"
    stopFlag,        \* the external stop request the stop_checker reads
    clock,           \* time.time()
    start_time,      \* interruptible_sleep: start_time
    duration,        \* interruptible_sleep: duration
    result,          \* value returned to the driver: <<>> is None
    sleepReturn,     \* value returned by interruptible_sleep: <<>> is None
    waitEnded,       \* how interruptible_sleep was left
    slept,           \* number of time.sleep(0.1) calls of this wait
    slicesAfterStop, \* time.sleep calls that returned with the stop request set
    log,             \* kinds of messages written to the logger
    ipc,                  \* position of the import of the tasks package
    importIdx,            \* index of the module being imported
    sysModules,           \* sys.modules: task modules imported successfully
    failedModules,        \* task modules whose import raised
    TASK_MODULES_LIST,    \* _TASK_MODULES_LIST
    PRIMARY_TASK_MODULES, \* ordered dict: task type name -> module
    TASK_MODULES_DICT,    \* ordered dict: task type name -> module
    lookupName,           \* argument of the last get_task_module call
    lookupResult,         \* its return value: <<>> is None
    listed,               \* return value of the last get_*_tasks call
    mpc,             \* position of the merge_params_definitions call
    fragments,       \* the param_defs arguments, as the caller holds them
    inputFragments,  \* the param_defs arguments as they were at the call
    mergeIdx,        \* index of the fragment the loop is at
    merged           \* merge_params_definitions: merged

flowVars == <<pc, entry, params, card_id, stop_checker, stopFlag, clock, start_time,
              duration, result, sleepReturn, waitEnded, slept, slicesAfterStop>>

regVars == <<ipc, importIdx, sysModules, failedModules, TASK_MODULES_LIST,
             PRIMARY_TASK_MODULES, TASK_MODULES_DICT, lookupName, lookupResult,
             listed>>

mergeVars == <<mpc, fragments, inputFragments, mergeIdx, merged>>

vars == <<flowVars, regVars, mergeVars, log>>

callVars == <<entry, params, card_id, stop_checker>>

(* ------------------------------ helpers -------------------------------- *)
None == <<>>

Some(v) == <<v>>

\* dict.get(key, default)
Get(opt, default) == IF opt = None THEN default ELSE opt[1]

Min(a, b) == IF a <= b THEN a ELSE b

Max(a, b) == IF a >= b THEN a ELSE b

ActionStrings ==
    {"NextStep", "RepeatStep", "RepeatStepLegacy", "JumpToStep", "StopWorkflow",
     "Unrecognized"}

ModeStrings == {"FixedDelay", "RandomDelay", "UnknownMode"}

Opt(S) == {None} \cup {Some(v) : v \in S}

\* a delay value that is present but is not a number (a str, say): a
\* sequence of length 2, so that it is neither None nor Some(v)
Malformed == <<"str", "abc">>

IsMalformed(opt) == Len(opt) = 2

StepIds == 1..MaxStepId

(* ------------------------- pure action handlers ------------------------ *)
\* a slip in the repeat branch: the step to repeat is lost
SuccessDirective_RepeatLosesCard(p, card) ==
    LET action  == Get(p.on_success, "NextStep")
        jump_id == p.success_jump_target_id
    IN  IF action = "JumpToStep" THEN <<TRUE, "JumpToStep", jump_id>>
        ELSE IF action = "StopWorkflow" THEN <<TRUE, "StopWorkflow", None>>
        ELSE IF action = "RepeatStep" \/ action = "RepeatStepLegacy"
             THEN <<TRUE, "RepeatStep", None>>
        ELSE <<TRUE, "NextStep", None>>

\* an unrecognized action taken for a request to stop
SuccessDirective_UnknownStops(p, card) ==
    LET action  == Get(p.on_success, "NextStep")
        jump_id == p.success_jump_target_id
    IN  IF action = "JumpToStep" THEN <<TRUE, "JumpToStep", jump_id>>
        ELSE IF action = "RepeatStep" \/ action = "RepeatStepLegacy"
             THEN <<TRUE, "RepeatStep", card>>
        ELSE IF action = "NextStep" THEN <<TRUE, "NextStep", None>>
        ELSE <<TRUE, "StopWorkflow", None>>

\* handle_success_action, lines 56-66: the branch on params['on_success']
SuccessDirective(p, card) ==
    LET action  == Get(p.on_success, "NextStep")
        jump_id == p.success_jump_target_id
    IN  IF action = "JumpToStep" THEN <<TRUE, "JumpToStep", jump_id>>
        ELSE IF action = "StopWorkflow" THEN <<TRUE, "StopWorkflow", None>>
        ELSE IF action = "RepeatStep" \/ action = "RepeatStepLegacy"
             THEN <<TRUE, "RepeatStep", card>>
        ELSE <<TRUE, "NextStep", None>>

\* a copy of the success handler whose stop branch still returns True
handle_failure_action_StopReportsTrue(p, card) ==
    LET action  == Get(p.on_failure, "NextStep")
        jump_id == p.failure_jump_target_id
    IN  IF action = "JumpToStep" THEN <<FALSE, "JumpToStep", jump_id>>
        ELSE IF action = "StopWorkflow" THEN <<TRUE, "StopWorkflow", None>>
        ELSE IF action = "RepeatStep" \/ action = "RepeatStepLegacy"
             THEN <<FALSE, "RepeatStep", card>>
        ELSE <<FALSE, "NextStep", None>>

\* a copy of the success handler that still reads the success jump target
handle_failure_action_WrongTarget(p, card) ==
    LET action  == Get(p.on_failure, "NextStep")
        jump_id == p.success_jump_target_id
    IN  IF action = "JumpToStep" THEN <<FALSE, "JumpToStep", jump_id>>
        ELSE IF action = "StopWorkflow" THEN <<FALSE, "StopWorkflow", None>>
        ELSE IF action = "RepeatStep" \/ action = "RepeatStepLegacy"
             THEN <<FALSE, "RepeatStep", card>>
        ELSE <<FALSE, "NextStep", None>>

\* handle_failure_action, lines 69-81
handle_failure_action(p, card) ==
    LET action  == Get(p.on_failure, "NextStep")
        jump_id == p.failure_jump_target_id
    IN  IF action = "JumpToStep" THEN <<FALSE, "JumpToStep", jump_id>>
        ELSE IF action = "StopWorkflow" THEN <<FALSE, "StopWorkflow", None>>
        ELSE IF action = "RepeatStep" \/ action = "RepeatStepLegacy"
             THEN <<FALSE, "RepeatStep", card>>
        ELSE <<FALSE, "NextStep", None>>

(* ------------------------------ inputs --------------------------------- *)
NoDelay ==
    [enable_next_step_delay |-> FALSE, delay_mode |-> None, fixed_delay |-> None,
     min_delay |-> None, max_delay |-> None]

NoPolicy ==
    [on_success |-> None, success_jump_target_id |-> None,
     on_failure |-> None, failure_jump_target_id |-> None]

Policies ==
    [on_success : Opt(ActionStrings), success_jump_target_id : Opt(StepIds),
     on_failure : Opt(ActionStrings), failure_jump_target_id : Opt(StepIds)]

\* delay settings exercised together with the action handlers
ResolveDelays ==
    { NoDelay,
      [NoDelay EXCEPT !.enable_next_step_delay = TRUE,
                      !.fixed_delay = Some(SliceTicks + 1)],
      [NoDelay EXCEPT !.enable_next_step_delay = TRUE,
                      !.delay_mode = Some("RandomDelay"),
                      !.min_delay = Some(1), !.max_delay = Some(SliceTicks)],
      [NoDelay EXCEPT !.enable_next_step_delay = TRUE,
                      !.delay_mode = Some("UnknownMode")],
      [NoDelay EXCEPT !.enable_next_step_delay = TRUE,
                      !.fixed_delay = Malformed],
      [NoDelay EXCEPT !.enable_next_step_delay = TRUE,
                      !.delay_mode = Some("RandomDelay"),
                      !.min_delay = Malformed, !.max_delay = Some(SliceTicks)] }

\* delay settings exercised on handle_next_step_delay alone
DelayParams ==
    { d \in [enable_next_step_delay : BOOLEAN, delay_mode : Opt(ModeStrings),
             fixed_delay : Opt(-1..MaxDelay),
             min_delay : Opt(0..MaxDelay), max_delay : Opt(0..MaxDelay)] :
        IF d.delay_mode = Some("RandomDelay")
        THEN d.fixed_delay = None
        ELSE d.min_delay = None /\ d.max_delay = None }

\* one params dict: the policy keys and the delay keys together
Params(policy, delay) ==
    [on_success |-> policy.on_success,
     success_jump_target_id |-> policy.success_jump_target_id,
     on_failure |-> policy.on_failure,
     failure_jump_target_id |-> policy.failure_jump_target_id,
     enable_next_step_delay |-> delay.enable_next_step_delay,
     delay_mode |-> delay.delay_mode, fixed_delay |-> delay.fixed_delay,
     min_delay |-> delay.min_delay, max_delay |-> delay.max_delay]

Init ==
    /\ pc = "idle"
    /\ entry = "none"
    /\ params = Params(NoPolicy, NoDelay)
    /\ card_id = None
    /\ stop_checker = "None"
    /\ stopFlag = FALSE
    /\ clock = 0
    /\ start_time = 0
    /\ duration = 0
    /\ result = None
    /\ sleepReturn = None
    /\ waitEnded = "not_started"
    /\ slept = 0
    /\ slicesAfterStop = 0
    /\ log = {}
    /\ ipc = "init_loop"
    /\ importIdx = 1
    /\ sysModules = {}
    /\ failedModules = {}
    /\ TASK_MODULES_LIST = <<>>
    /\ PRIMARY_TASK_MODULES = <<>>
    /\ TASK_MODULES_DICT = <<>>
    /\ lookupName = None
    /\ lookupResult = None
    /\ listed = <<>>
    /\ mpc = "idle"
    /\ fragments = <<>>
    /\ inputFragments = <<>>
    /\ mergeIdx = 1
    /\ merged = <<>>

(* ----------------------------- returns --------------------------------- *)
\* where control goes when handle_next_step_delay returns
AfterDelay == IF entry = "handle_success_action" THEN "select" ELSE "done"

\* where control goes when interruptible_sleep returns normally
AfterSleep == IF entry = "interruptible_sleep" THEN "done" ELSE AfterDelay

\* the exception of the delay left uncaught
AfterSleepRaise_Propagates == "raised"

\* where control goes when interruptible_sleep raises: the except clause of
\* handle_next_step_delay catches it, a direct caller gets the exception
AfterSleepRaise == IF entry = "interruptible_sleep" THEN "raised" ELSE AfterDelay

(* ----------------------- handle_next_step_delay ------------------------ *)
\* the driver calls handle_next_step_delay(params, stop_checker) directly
CallHandleNextStepDelay(d, chk) ==
    /\ pc = "idle"
    /\ pc' = "delay"
    /\ entry' = "handle_next_step_delay"
    /\ params' = Params(NoPolicy, d)
    /\ card_id' = None
    /\ stop_checker' = chk
    /\ UNCHANGED <<stopFlag, clock, start_time, duration, result, sleepReturn,
                   waitEnded, slept, slicesAfterStop, log>>
    /\ UNCHANGED <<regVars, mergeVars>>

\* a draw that may exceed the upper bound by one tick
Uniform_AboveMax(a, b) == Min(a, b)..(Max(a, b) + 1)

\* random.uniform(a, b): any value between the two arguments
Uniform(a, b) == Min(a, b)..Max(a, b)

\* the delay skipped when the workflow is about to stop
HandleNextStepDelay_SkipsBeforeStop ==
    /\ pc = "delay"
    /\ LET delay_mode == Get(params.delay_mode, "FixedDelay")
       IN  IF ~params.enable_next_step_delay
              \/ params.on_success = Some("StopWorkflow")
           THEN /\ pc' = AfterDelay
                /\ UNCHANGED <<duration, waitEnded, log>>
           ELSE IF delay_mode = "FixedDelay"
           THEN IF IsMalformed(params.fixed_delay)
                THEN /\ pc' = AfterDelay
                     /\ waitEnded' = "raised"
                     /\ log' = log \cup {"info_fixed_delay", "error_delay"}
                     /\ UNCHANGED duration
                ELSE /\ duration' = Get(params.fixed_delay, DefaultFixedDelay)
                     /\ pc' = "sleep_entry"
                     /\ log' = log \cup {"info_fixed_delay"}
                     /\ UNCHANGED waitEnded
           ELSE IF delay_mode = "RandomDelay"
           THEN IF IsMalformed(params.min_delay) \/ IsMalformed(params.max_delay)
                THEN /\ pc' = AfterDelay
                     /\ log' = log \cup {"error_delay"}
                     /\ UNCHANGED <<duration, waitEnded>>
                ELSE /\ \E delay_time \in Uniform(Get(params.min_delay, DefaultMinDelay),
                                                  Get(params.max_delay, DefaultMaxDelay)) :
                            duration' = delay_time
                     /\ pc' = "sleep_entry"
                     /\ log' = log \cup {"info_random_delay"}
                     /\ UNCHANGED waitEnded
           ELSE /\ pc' = AfterDelay
                /\ log' = log \cup {"warning_unknown_delay_mode"}
                /\ UNCHANGED <<duration, waitEnded>>
    /\ UNCHANGED <<callVars, stopFlag, clock, start_time, result, sleepReturn,
                   slept, slicesAfterStop>>
    /\ UNCHANGED <<regVars, mergeVars>>

\* lines 16-34: the body of handle_next_step_delay up to the call of
\* interruptible_sleep (or its return when nothing is to be waited for).
\* A delay value that is not a number raises TypeError, in random.uniform
\* (line 28) or in the comparison duration <= 0 (line 39) of the sleep just
\* entered; the except clause of line 33 logs it and the function returns.
HandleNextStepDelay ==
    /\ pc = "delay"
    /\ LET delay_mode == Get(params.delay_mode, "FixedDelay")
       IN  IF ~params.enable_next_step_delay
           THEN /\ pc' = AfterDelay
                /\ UNCHANGED <<duration, waitEnded, log>>
           ELSE IF delay_mode = "FixedDelay"
           THEN IF IsMalformed(params.fixed_delay)
                THEN /\ pc' = AfterDelay
                     /\ waitEnded' = "raised"
                     /\ log' = log \cup {"info_fixed_delay", "error_delay"}
                     /\ UNCHANGED duration
                ELSE /\ duration' = Get(params.fixed_delay, DefaultFixedDelay)
                     /\ pc' = "sleep_entry"
                     /\ log' = log \cup {"info_fixed_delay"}
                     /\ UNCHANGED waitEnded
           ELSE IF delay_mode = "RandomDelay"
           THEN IF IsMalformed(params.min_delay) \/ IsMalformed(params.max_delay)
                THEN /\ pc' = AfterDelay
                     /\ log' = log \cup {"error_delay"}
                     /\ UNCHANGED <<duration, waitEnded>>
                ELSE /\ \E delay_time \in Uniform(Get(params.min_delay, DefaultMinDelay),
                                                  Get(params.max_delay, DefaultMaxDelay)) :
                            duration' = delay_time
                     /\ pc' = "sleep_entry"
                     /\ log' = log \cup {"info_random_delay"}
                     /\ UNCHANGED waitEnded
           ELSE /\ pc' = AfterDelay
                /\ log' = log \cup {"warning_unknown_delay_mode"}
                /\ UNCHANGED <<duration, waitEnded>>
    /\ UNCHANGED <<callVars, stopFlag, clock, start_time, result, sleepReturn,
                   slept, slicesAfterStop>>
    /\ UNCHANGED <<regVars, mergeVars>>

(* -------------------------- interruptible_sleep ------------------------ *)
\* the driver (or a task) calls interruptible_sleep(duration, stop_checker)
CallInterruptibleSleep(d, chk) ==
    /\ pc = "idle"
    /\ pc' = "sleep_entry"
    /\ entry' = "interruptible_sleep"
    /\ duration' = d
    /\ stop_checker' = chk
    /\ UNCHANGED <<params, card_id, stopFlag, clock, start_time, result,
                   sleepReturn, waitEnded, slept, slicesAfterStop, log>>
    /\ UNCHANGED <<regVars, mergeVars>>

\* lines 39-42: the early return and start_time = time.time()
SleepEntry ==
    /\ pc = "sleep_entry"
    /\ IF duration <= 0
       THEN /\ pc' = AfterSleep
            /\ waitEnded' = "immediate"
            /\ sleepReturn' = None
            /\ UNCHANGED start_time
       ELSE /\ pc' = "sleep_while"
            /\ waitEnded' = "running"
            /\ start_time' = clock
            /\ UNCHANGED sleepReturn
    /\ UNCHANGED <<callVars, stopFlag, clock, duration, result, slept,
                   slicesAfterStop, log>>
    /\ UNCHANGED <<regVars, mergeVars>>

\* line 43: while time.time() - start_time < duration
SleepWhile ==
    /\ pc = "sleep_while"
    /\ IF clock - start_time < duration
       THEN /\ pc' = "sleep_check"
            /\ UNCHANGED <<waitEnded, sleepReturn>>
       ELSE /\ pc' = AfterSleep
            /\ waitEnded' = "elapsed"
            /\ sleepReturn' = None
    /\ UNCHANGED <<callVars, stopFlag, clock, start_time, duration, result, slept,
                   slicesAfterStop, log>>
    /\ UNCHANGED <<regVars, mergeVars>>

\* the stop check left out of the loop
StopRequested_NeverChecked(chk, flag) == FALSE

\* line 44: stop_checker and stop_checker(), for a checker that returns
StopRequested(chk, flag) == chk = "Flag" /\ flag

\* lines 44-46: the stop check; a checker that raises leaves the function
SleepCheck ==
    /\ pc = "sleep_check"
    /\ IF stop_checker = "Raises"
       THEN /\ pc' = AfterSleepRaise
            /\ waitEnded' = "raised"
            /\ log' = IF entry = "interruptible_sleep" THEN log
                      ELSE log \cup {"error_delay"}
            /\ UNCHANGED sleepReturn
       ELSE IF StopRequested(stop_checker, stopFlag)
       THEN /\ pc' = AfterSleep
            /\ waitEnded' = "interrupted"
            /\ sleepReturn' = None
            /\ log' = log \cup {"info_delay_interrupted"}
       ELSE /\ pc' = "sleep_slice"
            /\ UNCHANGED <<waitEnded, sleepReturn, log>>
    /\ UNCHANGED <<callVars, stopFlag, clock, start_time, duration, result, slept,
                   slicesAfterStop>>
    /\ UNCHANGED <<regVars, mergeVars>>

\* line 47: time.sleep(0.1)
SleepSlice ==
    /\ pc = "sleep_slice"
    /\ pc' = "sleep_while"
    /\ clock' = clock + SliceTicks
    /\ slept' = slept + 1
    /\ slicesAfterStop' = IF stopFlag THEN slicesAfterStop + 1 ELSE slicesAfterStop
    /\ UNCHANGED <<callVars, stopFlag, start_time, duration, result, sleepReturn,
                   waitEnded, log>>
    /\ UNCHANGED <<regVars, mergeVars>>

\* the external driver sets the stop request; it is never withdrawn
Cancel ==
    /\ ~stopFlag
    /\ pc \notin {"done", "raised"}
    /\ stopFlag' = TRUE
    /\ UNCHANGED <<pc, callVars, clock, start_time, duration, result, sleepReturn,
                   waitEnded, slept, slicesAfterStop, log>>
    /\ UNCHANGED <<regVars, mergeVars>>

(* --------------------------- action handlers --------------------------- *)
\* the driver calls handle_success_action(params, card_id, stop_checker);
\* line 53 enters handle_next_step_delay first
CallHandleSuccessAction(p, card, chk) ==
    /\ pc = "idle"
    /\ pc' = "delay"
    /\ entry' = "handle_success_action"
    /\ params' = p
    /\ card_id' = card
    /\ stop_checker' = chk
    /\ UNCHANGED <<stopFlag, clock, start_time, duration, result, sleepReturn,
                   waitEnded, slept, slicesAfterStop, log>>
    /\ UNCHANGED <<regVars, mergeVars>>

\* an interrupted wait reported as a failed step
SelectSuccessAction_InterruptedFails ==
    /\ pc = "select"
    /\ pc' = "done"
    /\ result' = IF waitEnded = "interrupted"
                 THEN <<FALSE, SuccessDirective(params, card_id)[2],
                        SuccessDirective(params, card_id)[3]>>
                 ELSE SuccessDirective(params, card_id)
    /\ UNCHANGED <<callVars, stopFlag, clock, start_time, duration, sleepReturn,
                   waitEnded, slept, slicesAfterStop, log>>
    /\ UNCHANGED <<regVars, mergeVars>>

\* lines 56-66: the directive is computed once the delay has returned
SelectSuccessAction ==
    /\ pc = "select"
    /\ pc' = "done"
    /\ result' = SuccessDirective(params, card_id)
    /\ UNCHANGED <<callVars, stopFlag, clock, start_time, duration, sleepReturn,
                   waitEnded, slept, slicesAfterStop, log>>
    /\ UNCHANGED <<regVars, mergeVars>>

\* the failure handler pacing like the success handler does
CallHandleFailureAction_Paced(p, card) ==
    /\ pc = "idle"
    /\ pc' = "delay"
    /\ entry' = "handle_failure_action"
    /\ params' = p
    /\ card_id' = card
    /\ result' = handle_failure_action(p, card)
    /\ UNCHANGED <<stop_checker, stopFlag, clock, start_time, duration, sleepReturn,
                   waitEnded, slept, slicesAfterStop, log>>
    /\ UNCHANGED <<regVars, mergeVars>>

\* the driver calls handle_failure_action(params, card_id): no delay, no
\* stop_checker, the directive is returned at once
CallHandleFailureAction(p, card) ==
    /\ pc = "idle"
    /\ pc' = "done"
    /\ entry' = "handle_failure_action"
    /\ params' = p
    /\ card_id' = card
    /\ result' = handle_failure_action(p, card)
    /\ UNCHANGED <<stop_checker, stopFlag, clock, start_time, duration, sleepReturn,
                   waitEnded, slept, slicesAfterStop, log>>
    /\ UNCHANGED <<regVars, mergeVars>>

DelaySteps ==
    \/ HandleNextStepDelay
    \/ SleepEntry
    \/ SleepWhile
    \/ SleepCheck
    \/ SleepSlice
    \/ Cancel

\* the driver is about to make a call
Idle == pc = "idle"

\* the outcome resolver: both handlers with a policy and a delay setting
Next ==
    \/ /\ Idle
       /\ \E policy \in Policies, d \in ResolveDelays, card \in Opt(StepIds),
             chk \in {"None", "Flag", "Raises"} :
             CallHandleSuccessAction(Params(policy, d), card, chk)
    \/ /\ Idle
       /\ \E policy \in Policies, d \in ResolveDelays, card \in Opt(StepIds) :
             CallHandleFailureAction(Params(policy, d), card)
    \/ SelectSuccessAction
    \/ DelaySteps

Spec == Init /\ [][Next]_vars

\* the delay scheduler alone
NextDelay ==
    \/ /\ Idle
       /\ \E d \in DelayParams, chk \in {"None", "Flag", "Raises"} :
             CallHandleNextStepDelay(d, chk)
    \/ /\ Idle
       /\ \E d \in -1..MaxDelay, chk \in {"None", "Flag", "Raises"} :
             CallInterruptibleSleep(d, chk)
    \/ DelaySteps

SpecDelay == Init /\ [][NextDelay]_vars

(* ------------------------ ordered dictionaries ------------------------- *)
\* A Python dict is a sequence of <<key, value>> pairs with distinct keys,
\* in insertion order.
RECURSIVE DictIndex(_, _, _)
\* the position of key k in d at or after position i, 0 when absent
DictIndex(d, k, i) ==
    IF i > Len(d) THEN 0
    ELSE IF d[i][1] = k THEN i
    ELSE DictIndex(d, k, i + 1)

\* an overwritten key moved to the end, as if deleted and inserted again
DictSet_MovesToEnd(d, k, v) ==
    LET i == DictIndex(d, k, 1)
    IN  IF i = 0 THEN Append(d, <<k, v>>)
        ELSE Append(SubSeq(d, 1, i - 1) \o SubSeq(d, i + 1, Len(d)), <<k, v>>)

\* d[k] = v: an existing key keeps its position, a new key is appended
DictSet(d, k, v) ==
    LET i == DictIndex(d, k, 1)
    IN  IF i = 0 THEN Append(d, <<k, v>>) ELSE [d EXCEPT ![i] = <<k, v>>]

RECURSIVE DictUpdate(_, _)
\* d.update(e), and {**d, **e}
DictUpdate(d, e) ==
    IF e = <<>> THEN d
    ELSE DictUpdate(DictSet(d, e[1][1], e[1][2]), Tail(e))

\* d.get(k): None when the key is absent
DictGet(d, k) ==
    LET i == DictIndex(d, k, 1)
    IN  IF i = 0 THEN None ELSE Some(d[i][2])

\* list(d.keys())
DictKeys(d) == [i \in 1..Len(d) |-> d[i][1]]

(* --------------------------- tasks/__init__.py ------------------------- *)
\* lines 29-42
predefined_modules ==
    << "mouse_scroll", "delay_task", "keyboard_input", "find_image_and_click",
       "conditional_control", "rotate_view_task", "find_color_task", "start_task",
       "click_coordinate", "ocr_region_recognition", "mouse_click_simulation",
       "mumu_app_manager" >>

\* lines 92-102: the modules of the "from . import" statements, in order
explicit_imports ==
    << "delay_task", "keyboard_input", "conditional_control", "start_task",
       "ocr_region_recognition", "mouse_click_simulation", "find_color_task",
       "ldplayer_app_manager", "mumu_app_manager" >>

\* lines 109-130; the keys, in ASCII:
\*   "Start" '起点', "SimulateMouse" '模拟鼠标操作',
\*   "SimulateKeyboard" '模拟键盘操作', "Delay" '延迟',
\*   "ConditionalControl" '条件控制', "FindColor" '找色功能',
\*   "OcrRecognition" 'OCR文字识别', "LdPlayerAppManager" '雷电应用管理',
\*   "MuMuAppManager" 'MuMu应用管理'
PrimaryTable ==
    << <<"Start", "start_task">>,
       <<"SimulateMouse", "mouse_click_simulation">>,
       <<"SimulateKeyboard", "keyboard_input">>,
       <<"Delay", "delay_task">>,
       <<"ConditionalControl", "conditional_control">>,
       <<"FindColor", "find_color_task">>,
       <<"OcrRecognition", "ocr_region_recognition">>,
       <<"LdPlayerAppManager", "ldplayer_app_manager">>,
       <<"MuMuAppManager", "mumu_app_manager">> >>

\* an alias left pointing at the module it used to name
AliasTable_StaleModule ==
    << <<"FindImageAndClick", "mouse_click_simulation">>,
       <<"ClickCoordinate", "mouse_click_simulation">>,
       <<"MouseScroll", "mouse_scroll">>,
       <<"RotateView", "mouse_click_simulation">>,
       <<"KeyboardInput", "keyboard_input">> >>

\* lines 139-144, the backward-compatible names; the keys, in ASCII:
\*   "FindImageAndClick" '查找图片并点击', "ClickCoordinate" '点击指定坐标',
\*   "MouseScroll" '鼠标滚轮操作', "RotateView" '旋转视角',
\*   "KeyboardInput" '键盘输入'
AliasTable ==
    << <<"FindImageAndClick", "mouse_click_simulation">>,
       <<"ClickCoordinate", "mouse_click_simulation">>,
       <<"MouseScroll", "mouse_click_simulation">>,
       <<"RotateView", "mouse_click_simulation">>,
       <<"KeyboardInput", "keyboard_input">> >>

\* task type names the driver may ask for: the registered ones and others
UnknownNames == {"unknown-type", "mouse_scroll", ""}

LookupNames ==
    {PrimaryTable[i][1] : i \in 1..Len(PrimaryTable)}
        \cup {AliasTable[i][1] : i \in 1..Len(AliasTable)} \cup UnknownNames

\* lines 64-83: what the methods of EmptyTaskModule return
EmptyTaskModule_run == FALSE

EmptyTaskModule_execute_task == <<FALSE, "no valid task module">>

EmptyTaskModule_execute_card == <<FALSE, "no valid card module">>

\* lines 45-57, one turn of the loop: importlib.import_module succeeds
ImportModuleOk ==
    /\ ipc = "init_loop"
    /\ LET module_name == predefined_modules[importIdx]
       IN  /\ module_name \notin failedModules
           /\ sysModules' = sysModules \cup {module_name}
           /\ TASK_MODULES_LIST' = Append(TASK_MODULES_LIST, module_name)
    /\ importIdx' = IF importIdx < Len(predefined_modules) THEN importIdx + 1 ELSE 1
    /\ ipc' = IF importIdx < Len(predefined_modules) THEN "init_loop" ELSE "init_check"
    /\ UNCHANGED <<failedModules, PRIMARY_TASK_MODULES, TASK_MODULES_DICT,
                   lookupName, lookupResult, listed, log, flowVars, mergeVars>>

\* lines 45-57, one turn of the loop: the import raises, the except clause
\* logs the error and the loop goes on
ImportModuleFail ==
    /\ ipc = "init_loop"
    /\ LET module_name == predefined_modules[importIdx]
       IN  /\ module_name \notin sysModules
           /\ failedModules' = failedModules \cup {module_name}
    /\ log' = log \cup {"error_import_failed"}
    /\ importIdx' = IF importIdx < Len(predefined_modules) THEN importIdx + 1 ELSE 1
    /\ ipc' = IF importIdx < Len(predefined_modules) THEN "init_loop" ELSE "init_check"
    /\ UNCHANGED <<sysModules, TASK_MODULES_LIST, PRIMARY_TASK_MODULES,
                   TASK_MODULES_DICT, lookupName, lookupResult, listed, flowVars, mergeVars>>

\* lines 59-62: nothing was imported, the list gets the placeholder
InitCheckEmpty ==
    /\ ipc = "init_check"
    /\ IF TASK_MODULES_LIST = <<>>
       THEN /\ TASK_MODULES_LIST' = <<"EmptyTaskModule">>
            /\ log' = log \cup {"warning_all_imports_failed"}
       ELSE UNCHANGED <<TASK_MODULES_LIST, log>>
    /\ ipc' = "explicit"
    /\ UNCHANGED <<importIdx, sysModules, failedModules, PRIMARY_TASK_MODULES,
                   TASK_MODULES_DICT, lookupName, lookupResult, listed, flowVars, mergeVars>>

\* lines 92-102, one "from . import m" that succeeds: m is in sys.modules
\* already, or is imported now for the first time
ExplicitImportOk ==
    /\ ipc = "explicit"
    /\ LET m == explicit_imports[importIdx]
       IN  /\ m \notin failedModules
           /\ sysModules' = sysModules \cup {m}
    /\ importIdx' = IF importIdx < Len(explicit_imports) THEN importIdx + 1 ELSE 1
    /\ ipc' = IF importIdx < Len(explicit_imports) THEN "explicit" ELSE "build"
    /\ UNCHANGED <<failedModules, TASK_MODULES_LIST, PRIMARY_TASK_MODULES,
                   TASK_MODULES_DICT, lookupName, lookupResult, listed, log,
                   flowVars, mergeVars>>

\* lines 92-102, one "from . import m" that raises: nothing catches it, the
\* import of the package fails
ExplicitImportFail ==
    /\ ipc = "explicit"
    /\ LET m == explicit_imports[importIdx]
       IN  /\ m \notin sysModules
           /\ failedModules' = failedModules \cup {m}
    /\ ipc' = "raised"
    /\ UNCHANGED <<importIdx, sysModules, TASK_MODULES_LIST, PRIMARY_TASK_MODULES,
                   TASK_MODULES_DICT, lookupName, lookupResult, listed, log,
                   flowVars, mergeVars>>

\* the full table built with the backward-compatible names spread first
BuildRegistry_AliasesFirst ==
    /\ ipc = "build"
    /\ PRIMARY_TASK_MODULES' = PrimaryTable
    /\ TASK_MODULES_DICT' = DictUpdate(AliasTable, PrimaryTable)
    /\ ipc' = "ready"
    /\ UNCHANGED <<importIdx, sysModules, failedModules, TASK_MODULES_LIST,
                   lookupName, lookupResult, listed, log, flowVars, mergeVars>>

\* lines 109-152: the two tables are built from the imported modules
BuildRegistry ==
    /\ ipc = "build"
    /\ PRIMARY_TASK_MODULES' = PrimaryTable
    /\ TASK_MODULES_DICT' = DictUpdate(PrimaryTable, AliasTable)
    /\ ipc' = "ready"
    /\ UNCHANGED <<importIdx, sysModules, failedModules, TASK_MODULES_LIST,
                   lookupName, lookupResult, listed, log, flowVars, mergeVars>>

\* lines 171-173
get_task_module(task_type_name) == DictGet(TASK_MODULES_DICT, task_type_name)

\* lines 163-165
get_available_tasks == DictKeys(PRIMARY_TASK_MODULES)

\* lines 167-169
get_all_tasks == DictKeys(TASK_MODULES_DICT)

\* the driver looks a task type up
CallGetTaskModule(name) ==
    /\ ipc = "ready"
    /\ lookupName' = Some(name)
    /\ lookupResult' = get_task_module(name)
    /\ UNCHANGED <<ipc, importIdx, sysModules, failedModules, TASK_MODULES_LIST,
                   PRIMARY_TASK_MODULES, TASK_MODULES_DICT, listed, log, flowVars, mergeVars>>

\* the user interface lists the primary task types
CallGetAvailableTasks ==
    /\ ipc = "ready"
    /\ listed' = get_available_tasks
    /\ UNCHANGED <<ipc, importIdx, sysModules, failedModules, TASK_MODULES_LIST,
                   PRIMARY_TASK_MODULES, TASK_MODULES_DICT, lookupName, lookupResult,
                   log, flowVars, mergeVars>>

\* the user interface lists all task types
CallGetAllTasks ==
    /\ ipc = "ready"
    /\ listed' = get_all_tasks
    /\ UNCHANGED <<ipc, importIdx, sysModules, failedModules, TASK_MODULES_LIST,
                   PRIMARY_TASK_MODULES, TASK_MODULES_DICT, lookupName, lookupResult,
                   log, flowVars, mergeVars>>

\* lines 165, 169: list(...) hands out a new list; the caller changes the
\* list it received (here: drops its first name)
CallerMutatesList ==
    /\ ipc = "ready"
    /\ listed # <<>>
    /\ listed' = Tail(listed)
    /\ UNCHANGED <<ipc, importIdx, sysModules, failedModules, TASK_MODULES_LIST,
                   PRIMARY_TASK_MODULES, TASK_MODULES_DICT, lookupName, lookupResult,
                   log, flowVars, mergeVars>>

NextRegistry ==
    \/ ImportModuleOk
    \/ ImportModuleFail
    \/ InitCheckEmpty
    \/ ExplicitImportOk
    \/ ExplicitImportFail
    \/ BuildRegistry
    \/ \E name \in LookupNames : CallGetTaskModule(name)
    \/ CallGetAvailableTasks
    \/ CallGetAllTasks
    \/ CallerMutatesList

SpecRegistry == Init /\ [][NextRegistry]_vars

(* ----------------------- merge_params_definitions ---------------------- *)
\* keys and values of the parameter-definition fragments
MergeKeys == {"x", "y"}

MergeValues == 1..MaxValue

\* the dicts over these keys: sequences of pairs with distinct keys
FragmentDicts ==
    { d \in UNION { [1..n -> MergeKeys \X MergeValues] :
                      n \in 0..Cardinality(MergeKeys) } :
        \A i, j \in 1..Len(d) : d[i][1] = d[j][1] => i = j }

\* the argument tuples *param_defs
FragmentSeqs == UNION { [1..n -> FragmentDicts] : n \in 0..MaxFragments }

\* lines 170-172: the call, and merged = {}
CallMergeParamsDefinitions(param_defs) ==
    /\ mpc = "idle"
    /\ mpc' = "loop"
    /\ fragments' = param_defs
    /\ inputFragments' = param_defs
    /\ mergeIdx' = 1
    /\ merged' = <<>>
    /\ UNCHANGED <<flowVars, regVars, log>>

\* lines 173-174, one turn of the loop: merged.update(param_def)
MergeUpdate ==
    /\ mpc = "loop"
    /\ mergeIdx <= Len(fragments)
    /\ merged' = DictUpdate(merged, fragments[mergeIdx])
    /\ mergeIdx' = mergeIdx + 1
    /\ UNCHANGED <<mpc, fragments, inputFragments, flowVars, regVars, log>>

\* line 175: return merged
MergeReturn ==
    /\ mpc = "loop"
    /\ mergeIdx > Len(fragments)
    /\ mpc' = "done"
    /\ UNCHANGED <<fragments, inputFragments, mergeIdx, merged, flowVars, regVars, log>>

NextMerge ==
    \/ /\ mpc = "idle"
       /\ \E param_defs \in FragmentSeqs : CallMergeParamsDefinitions(param_defs)
    \/ MergeUpdate
    \/ MergeReturn

SpecMerge == Init /\ [][NextMerge]_vars

(* ============================== claims ================================= *)
Handlers == {"handle_success_action", "handle_failure_action"}

\* a handler has returned its directive to the driver
Returned == pc = "done" /\ entry \in Handlers

\* the step result the driver reports by its choice of handler
stepResult == entry = "handle_success_action"

\* the policy value the claims call the applicable branch's action
ApplicableAction ==
    IF stepResult THEN Get(params.on_success, "NextStep")
    ELSE Get(params.on_failure, "NextStep")

\* the policy value the claims call the applicable branch's jump target
ApplicableTarget ==
    IF stepResult THEN params.success_jump_target_id
    ELSE params.failure_jump_target_id

\* the four action kinds of the policy (RepeatStep has two spellings)
FourKinds == {"NextStep", "RepeatStep", "RepeatStepLegacy", "JumpToStep", "StopWorkflow"}

\* C1: for either step result and each of the four action kinds on the
\* applicable branch, the returned directive's success field equals the step
\* result.
C1_SuccessMirrorsResult ==
    (Returned /\ ApplicableAction \in FourKinds) => result[1] = stepResult

C1_Witness ==
    /\ Returned
    /\ ~stepResult
    /\ params.on_failure = Some("StopWorkflow")
    /\ params.on_success = Some("NextStep")
    /\ result[1] = FALSE

\* C2: a JumpToStep action on the applicable branch whose jump target is
\* absent raises a configuration error: no directive is returned, neither a
\* NextStep one nor a JumpToStep one with an empty target.
C2_JumpWithoutTargetRaises ==
    (entry \in Handlers /\ ApplicableAction = "JumpToStep" /\ ApplicableTarget = None)
        => ~(pc = "done" /\ result # None)

\* C3: the branch is chosen per side. A failed step with on_failure =
\* JumpToStep and failure target t gives <<FALSE, JumpToStep, t>> whatever
\* the success fields are, a successful step uses the success fields only,
\* and NextStep and StopWorkflow carry no target.
C3_BranchPerSide ==
    Returned =>
        /\ (~stepResult /\ params.on_failure = Some("JumpToStep")
                /\ params.failure_jump_target_id # None)
              => result = <<FALSE, "JumpToStep", params.failure_jump_target_id>>
        /\ (stepResult /\ params.on_success = Some("JumpToStep")
                /\ params.success_jump_target_id # None)
              => result = <<TRUE, "JumpToStep", params.success_jump_target_id>>
        /\ ApplicableAction \in {"NextStep", "StopWorkflow"}
              => (result[2] = ApplicableAction /\ result[3] = None)

C3_Witness ==
    /\ Returned
    /\ ~stepResult
    /\ params.on_failure = Some("JumpToStep")
    /\ params.failure_jump_target_id = Some(2)
    /\ params.on_success = Some("JumpToStep")
    /\ params.success_jump_target_id = Some(1)
    /\ result = <<FALSE, "JumpToStep", Some(2)>>

\* C4: a RepeatStep action on the applicable branch gives a directive whose
\* target is the current step id that was passed in, on both branches.
C4_RepeatTargetsCurrent ==
    (Returned /\ ApplicableAction \in {"RepeatStep", "RepeatStepLegacy"}
        /\ card_id # None)
        => (result[2] = "RepeatStep" /\ result[3] = card_id)

C4_Witness ==
    /\ Returned
    /\ stepResult
    /\ params.on_success = Some("RepeatStep")
    /\ params.success_jump_target_id = Some(1)
    /\ card_id = Some(2)
    /\ result = <<TRUE, "RepeatStep", Some(2)>>

\* C5: looking up a task type name that is neither a primary name nor an
\* alias returns the fallback implementation, never an absent result.
C5_UnknownResolvesToFallback ==
    (ipc = "ready" /\ lookupName # None /\ Get(lookupName, "") \in UnknownNames)
        => lookupResult = Some("EmptyTaskModule")

\* C6: with a stop_checker reading the stop request, at most one
\* time.sleep(0.1) slice ends after the request was set, whatever part of
\* the duration remains.
C6_CancelLatencyOneSlice ==
    stop_checker = "Flag" => slicesAfterStop <= 1

C6_Witness ==
    /\ stop_checker = "Flag"
    /\ waitEnded = "interrupted"
    /\ slicesAfterStop = 1
    /\ duration - (clock - start_time) > SliceTicks

\* C7: the wait tells its caller how it ended: Cancelled when the stop
\* request ended it, Completed when the whole duration elapsed.
C7_WaitReportsOutcome ==
    /\ waitEnded = "interrupted" => sleepReturn = Some("Cancelled")
    /\ waitEnded = "elapsed" => sleepReturn = Some("Completed")

\* the params ask for a pacing wait
WaitConfigured ==
    /\ params.enable_next_step_delay
    /\ Get(params.delay_mode, "FixedDelay") \in {"FixedDelay", "RandomDelay"}

\* the wait was attempted: interruptible_sleep was entered, or the attempt
\* raised and the error was logged
WaitAttempted == waitEnded # "not_started" \/ "error_delay" \in log

ImportEnded == ipc \in {"ready", "raised"}

\* the task type names under which module m can be looked up
NamesOf(m) == {n \in LookupNames : get_task_module(n) = Some(m)}

\* C9: whichever task modules fail to load, initialisation completes without
\* raising and every module that did load is available from the registry.
C9_PartialLoadSurvives ==
    ImportEnded =>
        /\ ipc = "ready"
        /\ \A m \in sysModules : NamesOf(m) # {}

\* C10: when every predefined task module fails to load, the registry still
\* comes up, every lookup returns the fallback, and running the fallback
\* reports failure.
C10_AllFailedRunsOnFallback ==
    (ImportEnded /\ \A i \in 1..Len(predefined_modules) :
                        predefined_modules[i] \in failedModules)
        => /\ ipc = "ready"
           /\ \A n \in LookupNames : get_task_module(n) = Some("EmptyTaskModule")
           /\ EmptyTaskModule_run = FALSE

\* the primary name an alias stands for (comments of lines 113-117, 139-144)
CanonicalOf(alias) ==
    IF alias = "KeyboardInput" THEN "SimulateKeyboard" ELSE "SimulateMouse"

AliasNames == {AliasTable[i][1] : i \in 1..Len(AliasTable)}

\* C11: looking up an alias returns the very implementation that looking up
\* its canonical name returns, and every alias points at an implementation
\* that is registered under a primary name too.
C11_AliasSameAsCanonical ==
    ipc = "ready" =>
        /\ \A b \in AliasNames :
              /\ get_task_module(b) # None
              /\ get_task_module(b) = get_task_module(CanonicalOf(b))
              /\ get_task_module(b) = DictGet(PRIMARY_TASK_MODULES, CanonicalOf(b))
        /\ (lookupName # None /\ Get(lookupName, "") \in AliasNames)
              => lookupResult = get_task_module(CanonicalOf(Get(lookupName, "")))

C11_Witness ==
    /\ ipc = "ready"
    /\ lookupName = Some("MouseScroll")
    /\ lookupResult = Some("mouse_click_simulation")
    /\ get_task_module("SimulateMouse") = Some("mouse_click_simulation")

\* C12: an action value outside the four recognized kinds resolves to
\* NextStep with no target, on both branches, and no error is raised.
C12_UnknownActionIsNextStep ==
    /\ (Returned /\ ApplicableAction = "Unrecognized")
          => result = <<stepResult, "NextStep", None>>
    /\ (entry \in Handlers /\ ApplicableAction = "Unrecognized") => pc # "raised"

C12_Witness ==
    /\ Returned
    /\ stepResult
    /\ params.on_success = Some("Unrecognized")
    /\ params.success_jump_target_id = Some(2)
    /\ card_id = Some(1)
    /\ result = <<TRUE, "NextStep", None>>

\* C13: a wait asked for a zero or negative duration returns at once with
\* Completed: no slice is slept and no cancellation is reported, even when
\* the stop request is set already.
C13_NonPositiveReturnsCompleted ==
    waitEnded = "immediate" =>
        /\ sleepReturn = Some("Completed")
        /\ slept = 0
        /\ "info_delay_interrupted" \notin log

\* what holds of a zero or negative duration whatever the wait returns: the
\* function is left before the clock is read or the stop_checker is called
NonPositiveSleepsNothing ==
    waitEnded = "immediate" =>
        /\ duration <= 0
        /\ slept = 0
        /\ clock = 0
        /\ "info_delay_interrupted" \notin log

NonPositiveSleepsNothing_Witness ==
    /\ waitEnded = "immediate"
    /\ stop_checker = "Flag"
    /\ stopFlag
    /\ duration < 0
    /\ pc = "done"

\* a fixed-mode wait (or a direct call) that no stop request ended
FixedWaitElapsed ==
    /\ waitEnded = "elapsed"
    /\ ~stopFlag
    /\ entry = "interruptible_sleep" \/ Get(params.delay_mode, "FixedDelay") = "FixedDelay"

\* C14: a fixed-mode wait of a positive duration whose stop request never
\* fires ends with Completed, not before the duration has elapsed and less
\* than one slice after it.
C14_FixedWaitCompletesOnTime ==
    FixedWaitElapsed =>
        /\ sleepReturn = Some("Completed")
        /\ clock - start_time >= duration
        /\ clock - start_time < duration + SliceTicks

\* what holds of the elapsed fixed-mode wait whatever it returns
ElapsedWithinOneSlice ==
    FixedWaitElapsed =>
        /\ clock - start_time >= duration
        /\ clock - start_time < duration + SliceTicks
        /\ slept * SliceTicks = clock - start_time

ElapsedWithinOneSlice_Witness ==
    /\ FixedWaitElapsed
    /\ duration = SliceTicks + 1
    /\ clock - start_time = 2 * SliceTicks

\* handle_next_step_delay has called interruptible_sleep
WaitCalled ==
    /\ entry = "handle_next_step_delay"
    /\ params.enable_next_step_delay
    /\ pc \notin {"idle", "delay"}

\* the slices a wait of d ticks sleeps when nothing interrupts it
SlicesFor(d) == IF d <= 0 THEN 0 ELSE (d + SliceTicks - 1) \div SliceTicks

\* how a wait of the given duration behaves, whatever mode asked for it
WaitBehaves ==
    /\ sleepReturn = None
    /\ waitEnded = "immediate" => (duration <= 0 /\ slept = 0)
    /\ waitEnded = "elapsed" => slept = SlicesFor(duration)
    /\ waitEnded = "interrupted" =>
          (stop_checker = "Flag" /\ stopFlag /\ slept < SlicesFor(duration))
    /\ waitEnded = "running" => slept <= SlicesFor(duration)

\* C15: random mode draws one duration within [min_delay, max_delay] and
\* waits it; with min_delay = max_delay = v the wait is the wait of fixed
\* mode with fixed_delay = v: the same duration is handed to
\* interruptible_sleep, which sleeps the same slices, returns the same value
\* and reacts to the stop request in the same way.
C15_RandomWaitsDrawnDuration ==
    WaitCalled =>
        LET mode == Get(params.delay_mode, "FixedDelay")
            lo   == Get(params.min_delay, DefaultMinDelay)
            hi   == Get(params.max_delay, DefaultMaxDelay)
        IN  /\ (mode = "RandomDelay" /\ lo <= hi)
                  => (lo <= duration /\ duration <= hi /\ WaitBehaves)
            /\ (mode = "RandomDelay" /\ lo = hi) => duration = lo
            /\ mode = "FixedDelay"
                  => (duration = Get(params.fixed_delay, DefaultFixedDelay)
                      /\ WaitBehaves)

C15_Witness ==
    /\ WaitCalled
    /\ params.delay_mode = Some("RandomDelay")
    /\ params.min_delay = Some(SliceTicks + 1)
    /\ params.max_delay = Some(SliceTicks + 1)
    /\ duration = SliceTicks + 1
    /\ waitEnded = "interrupted"
    /\ slept = 1
    /\ pc = "done"

\* the keys of a dict, as a set
KeySet(d) == {d[i][1] : i \in 1..Len(d)}

\* the fragments that hold key k
Holding(frags, k) == {i \in 1..Len(frags) : k \in KeySet(frags[i])}

\* the first and the last fragment that hold key k
FirstHolding(frags, k) == CHOOSE i \in Holding(frags, k) : \A j \in Holding(frags, k) : i <= j

LastHolding(frags, k) == CHOOSE i \in Holding(frags, k) : \A j \in Holding(frags, k) : j <= i

\* key a appears before key b when the fragments are read left to right
AppearsBefore(frags, a, b) ==
    LET fa == FirstHolding(frags, a)
        fb == FirstHolding(frags, b)
    IN  \/ fa < fb
        \/ fa = fb /\ DictIndex(frags[fa], a, 1) < DictIndex(frags[fa], b, 1)

\* C16: the result of merging the fragments left to right holds exactly the
\* keys of the fragments, each with the value of the last fragment that holds
\* it, in the order of their first appearance; the fragments are unchanged.
C16_MergeIsLeftToRightOverlay ==
    mpc = "done" =>
        /\ KeySet(merged) = UNION {KeySet(inputFragments[i]) : i \in 1..Len(inputFragments)}
        /\ \A i, j \in 1..Len(merged) : merged[i][1] = merged[j][1] => i = j
        /\ \A i \in 1..Len(merged) :
              Some(merged[i][2])
                  = DictGet(inputFragments[LastHolding(inputFragments, merged[i][1])],
                            merged[i][1])
        /\ \A i, j \in 1..Len(merged) :
              i < j => AppearsBefore(inputFragments, merged[i][1], merged[j][1])
        /\ fragments = inputFragments

C16_Witness ==
    /\ mpc = "done"
    /\ inputFragments = << << <<"x", 1>> >>, << <<"x", 2>>, <<"y", 3>> >> >>
    /\ merged = << <<"x", 2>>, <<"y", 3>> >>
    /\ fragments = inputFragments

\* the primary names in the order of lines 111-129
CuratedPrimaryNames ==
    << "Start", "SimulateMouse", "SimulateKeyboard", "Delay", "ConditionalControl",
       "FindColor", "OcrRecognition", "LdPlayerAppManager", "MuMuAppManager" >>

\* the alias names in the order of lines 140-144
RegisteredAliasNames ==
    << "FindImageAndClick", "ClickCoordinate", "MouseScroll", "RotateView",
       "KeyboardInput" >>

\* C17: the list of all names is the primary names in their curated order
\* followed by the alias names in registration order; the list of primary
\* names is a prefix of it, no name occurs twice, and this stays so whatever
\* queries were made and whatever the caller did to a list it received.
C17_ListAllIsPrimaryThenAliases ==
    ipc = "ready" =>
        LET all  == get_all_tasks
            prim == get_available_tasks
        IN  /\ prim = CuratedPrimaryNames
            /\ all = CuratedPrimaryNames \o RegisteredAliasNames
            /\ Len(prim) <= Len(all) /\ SubSeq(all, 1, Len(prim)) = prim
            /\ \A i, j \in 1..Len(all) : all[i] = all[j] => i = j

C17_Witness ==
    /\ ipc = "ready"
    /\ listed = Tail(CuratedPrimaryNames \o RegisteredAliasNames)
    /\ get_all_tasks[1] = "Start"
    /\ Len(get_all_tasks) = Len(listed) + 1

\* the directive the policy asks for, given the step result, the applicable
\* action and target, and the current step
DirectiveOf(ok, action, target, card) ==
    CASE action = "JumpToStep" -> <<ok, "JumpToStep", target>>
      [] action = "StopWorkflow" -> <<ok, "StopWorkflow", None>>
      [] action \in {"RepeatStep", "RepeatStepLegacy"} -> <<ok, "RepeatStep", card>>
      [] OTHER -> <<ok, "NextStep", None>>

\* C18: the directive depends on the step result, the policy and the current
\* step only: it is the same whether the pacing wait elapsed, was interrupted
\* or never ran, and an interrupted wait never turns a success into a failure.
C18_DelayNeverChangesDirective ==
    Returned =>
        /\ result = DirectiveOf(stepResult, ApplicableAction, ApplicableTarget, card_id)
        /\ stepResult => result[1] = TRUE

C18_Witness ==
    /\ Returned
    /\ stepResult
    /\ waitEnded = "interrupted"
    /\ slept = 1
    /\ params.on_success = Some("JumpToStep")
    /\ params.success_jump_target_id = Some(2)
    /\ result = <<TRUE, "JumpToStep", Some(2)>>

\* the pacing phase is over: the wait elapsed, was interrupted, had nothing
\* to wait for, or raised
WaitOver ==
    \/ waitEnded \in {"elapsed", "interrupted", "immediate", "raised"}
    \/ "error_delay" \in log

DelayRaised == waitEnded = "raised" \/ "error_delay" \in log

\* the delay mode is none of the two the code knows
ModeUnknown ==
    /\ params.enable_next_step_delay
    /\ Get(params.delay_mode, "FixedDelay") \notin {"FixedDelay", "RandomDelay"}

\* C20: a fault of the pacing phase never keeps handle_success_action from
\* returning its directive: an exception of the delay is logged and the wait
\* abandoned, an unrecognized mode is logged and the wait skipped, and the
\* directive the policy asks for is returned.
C20_DelayFaultContained ==
    entry = "handle_success_action" =>
        /\ pc # "raised"
        /\ DelayRaised => ("error_delay" \in log /\ slept = 0 /\ pc \in {"select", "done"})
        /\ (ModeUnknown /\ pc \in {"select", "done"})
              => ("warning_unknown_delay_mode" \in log /\ waitEnded = "not_started")
        /\ (Returned /\ (DelayRaised \/ ModeUnknown))
              => result = DirectiveOf(TRUE, ApplicableAction, ApplicableTarget, card_id)

C20_Witness ==
    /\ Returned
    /\ stepResult
    /\ stop_checker = "Raises"
    /\ waitEnded = "raised"
    /\ "error_delay" \in log
    /\ params.on_success = Some("JumpToStep")
    /\ params.success_jump_target_id = Some(1)
    /\ result = <<TRUE, "JumpToStep", Some(1)>>

====
